---- MODULE Spec2Model ----
(***************************************************************************)
(* A model of the integer-keyed binary trie of trie.c / trie.h.            *)
(*                                                                         *)
(* The heap is explicit: `nodes` maps node addresses to struct Node_s      *)
(* values and `entries` maps entry addresses to struct Entry_s values; the *)
(* fields left, right and entry are addresses or NULL.  malloc returns a   *)
(* fresh address whose value the code never inspects, so the model names a *)
(* fresh address canonically (NodeAddr, EntryAddr).                        *)
(*                                                                         *)
(* ikey_t is a 32-bit unsigned word.  It is written as two 16-bit halves   *)
(* (hi, lo) because TLC's integers are 32-bit signed.                      *)
(***************************************************************************)
EXTENDS Integers, Sequences, FiniteSets, TLC

VARIABLES
    trie,             \* the caller's Trie pointer: "live", "freed" or "null"
    root,             \* trie->root
    num_nodes,        \* trie->num_nodes
    leaf_nodes,       \* trie->leaf_nodes
    height,           \* trie->height
    ibt_show_value_w, \* trie->ibt_show_value_w is non-NULL
    ibt_delete_entry, \* trie->ibt_delete_entry is non-NULL
    nodes,            \* heap of struct Node_s
    entries,          \* heap of struct Entry_s
    proc,             \* "running", "exited" (exit or return from main) or "killed" (by a signal)
    op,               \* the last call made on the trie
    arg,              \* the key passed to the last ibt_insert / ibt_search
    ret,              \* the Entry returned by the last ibt_search
    shown,            \* entries handed to the display callback by the last call
    freed,            \* entries handed to the disposal callback by the last call
    stderr,           \* lines written to stderr by the last call
    fault,            \* "none", or the undefined behaviour the last call ran into
    ncalls,           \* history: number of ibt_insert calls since ibt_create
    first,            \* history: key -> value of the first ibt_insert of that key
    ndestroy,         \* history: number of ibt_destroy calls since ibt_create
    pc                \* where place_ip's main is; "caller" when the caller is any program

vars == <<trie, root, num_nodes, leaf_nodes, height, ibt_show_value_w, ibt_delete_entry, nodes, entries, proc, op, arg, ret, shown, freed, stderr, fault, ncalls, first, ndestroy, pc>>

(* ------------------------------ bounds --------------------------------- *)

\* number of keys of KeyTable that ibt_insert is called with
NumKeys == 4
\* number of further keys of KeyTable that ibt_search is called with
QueryExtra == 2
\* number of ibt_insert calls per trie instance
MaxInserts == 3
\* number of lines of the CSV file that place_ip reads
MaxLines == 2

(* --------------------------- 32-bit words ------------------------------ *)

BITSPERWORD == 32

NULL == <<>>

Half == 2^16

Word(hi, lo) == [hi |-> hi, lo |-> lo]

Zero == Word(0, 0)

\* w << 1 in 32 bits
ShiftLeft1(w) == Word((w.hi * 2 + (w.lo \div (Half \div 2))) % Half, (w.lo * 2) % Half)

RECURSIVE ShiftLeft(_, _)
ShiftLeft(w, n) == IF n = 0 THEN w ELSE ShiftLeft(ShiftLeft1(w), n - 1)

\* w >> 1 in 32 bits
ShiftRight1(w) == Word(w.hi \div 2, (w.lo \div 2) + (w.hi % 2) * (Half \div 2))

\* a & m on one half, for a mask half m with at most one bit set
AndBit(a, m) == IF m = 0 THEN 0 ELSE ((a \div m) % 2) * m

\* key & mask; every mask of trie.c is 1 << 31 shifted right, so it has at
\* most one bit set
BitAnd(key, mask) == Word(AndBit(key.hi, mask.hi), AndBit(key.lo, mask.lo))

\* a < b as unsigned 32-bit numbers
Less(a, b) == a.hi < b.hi \/ (a.hi = b.hi /\ a.lo < b.lo)

\* ikey_t mask = 1; mask <<= (BITSPERWORD - 1);
InitMask == ShiftLeft(Word(0, 1), BITSPERWORD - 1)

(* ------------------------------ inputs --------------------------------- *)

\* 0x00000001, 0x00000003, 0xFFFFFFFF, 0xFFFFFFFE, 0x00010000,
\* 0x80000000, 0x00000002, 0x00000000, 0x40000000, 0x0000FFFF
\* (0x00000001 and 0x00000003 part at bit 1, 0xFFFFFFFF and 0xFFFFFFFE at
\* bit 0, the last bit the mask reaches)
KeyTable == <<Word(0, 1), Word(0, 3), Word(65535, 65535), Word(65535, 65534), Word(1, 0), Word(32768, 0), Word(0, 2), Word(0, 0), Word(16384, 0), Word(0, 65535)>>

TableLen(n) == IF n < Len(KeyTable) THEN n ELSE Len(KeyTable)

Keys == {KeyTable[i] : i \in 1..TableLen(NumKeys)}

Queries == {KeyTable[i] : i \in 1..TableLen(NumKeys + QueryExtra)}

(* ------------------------------- heap ---------------------------------- *)

EmptyHeap == <<>>

\* A node address is <<depth, hi, lo>>: the depth of the node and the bits of
\* the path to it (0 left, 1 right), written from bit 31 down.
RootAddr == <<0, 0, 0>>

\* the address malloc returns for the node that becomes parent->side
NodeAddr(parent, side) ==
    LET d == parent[1]
        b == IF side = "left" THEN 0 ELSE 1
    IN  <<d + 1, parent[2] + (IF d < 16 THEN b * 2^(15 - d) ELSE 0), parent[3] + (IF d >= 16 /\ d < 32 THEN b * 2^(31 - d) ELSE 0)>>

\* the address malloc returns for a new entry with this key
EntryAddr(ents, key) == <<key.hi, key.lo, Cardinality({a \in DOMAIN ents : ents[a].key = key})>>

Range(s) == {s[i] : i \in DOMAIN s}

ibt_make_node == [entry |-> NULL, left |-> NULL, right |-> NULL]

ibt_make_leaf(entry) == [entry |-> entry, left |-> NULL, right |-> NULL]

ibt_make_entry(key, value) == [key |-> key, value |-> value]

(* ----------------------------- insertion ------------------------------- *)

\* m = [nodes, entries, nc, bh, fault]: the heap, *nc (trie->num_nodes), *bh
RECURSIVE ibt_make_branch(_, _, _, _, _, _, _)

\* faulty variant of ibt_make_branch: the level of the two new leaves is not
\* counted in *bh
ibt_make_branch_level_missed(m, cur, key1, key2, mask, val1, entry2) ==
    LET bit1 == BitAnd(key1, mask)
        bit2 == BitAnd(key2, mask)
    IN  IF bit1 = bit2
        THEN IF mask = Zero
             THEN [m EXCEPT !.fault = "hang"]
             ELSE LET side == IF bit1 = Zero THEN "left" ELSE "right"
                      a == NodeAddr(cur, side)
                      m1 == [m EXCEPT !.nc = @ + 1, !.bh = @ + 1, !.nodes = (a :> ibt_make_node) @@ [@ EXCEPT ![cur][side] = a]]
                  IN  ibt_make_branch(m1, a, key1, key2, ShiftRight1(mask), val1, entry2)
        ELSE LET e1 == EntryAddr(m.entries, key1)
                 l == NodeAddr(cur, "left")
                 r == NodeAddr(cur, "right")
                 el == IF bit1 = Zero THEN e1 ELSE entry2
                 er == IF bit1 = Zero THEN entry2 ELSE e1
             IN  [m EXCEPT !.nc = @ + 2, !.entries = (e1 :> ibt_make_entry(key1, val1)) @@ @, !.nodes = (l :> ibt_make_leaf(el)) @@ (r :> ibt_make_leaf(er)) @@ [@ EXCEPT ![cur].left = l, ![cur].right = r]]

\* faulty variant of ibt_make_branch: the two new leaves add 1 to *nc
ibt_make_branch_one_counted(m, cur, key1, key2, mask, val1, entry2) ==
    LET bit1 == BitAnd(key1, mask)
        bit2 == BitAnd(key2, mask)
    IN  IF bit1 = bit2
        THEN IF mask = Zero
             THEN [m EXCEPT !.fault = "hang"]
             ELSE LET side == IF bit1 = Zero THEN "left" ELSE "right"
                      a == NodeAddr(cur, side)
                      m1 == [m EXCEPT !.nc = @ + 1, !.bh = @ + 1, !.nodes = (a :> ibt_make_node) @@ [@ EXCEPT ![cur][side] = a]]
                  IN  ibt_make_branch(m1, a, key1, key2, ShiftRight1(mask), val1, entry2)
        ELSE LET e1 == EntryAddr(m.entries, key1)
                 l == NodeAddr(cur, "left")
                 r == NodeAddr(cur, "right")
                 el == IF bit1 = Zero THEN e1 ELSE entry2
                 er == IF bit1 = Zero THEN entry2 ELSE e1
             IN  [m EXCEPT !.nc = @ + 1, !.bh = @ + 1, !.entries = (e1 :> ibt_make_entry(key1, val1)) @@ @, !.nodes = (l :> ibt_make_leaf(el)) @@ (r :> ibt_make_leaf(er)) @@ [@ EXCEPT ![cur].left = l, ![cur].right = r]]

\* faulty variant of ibt_make_branch: the two new leaves are hung on the
\* sides opposite to their bits
ibt_make_branch_leaves_swapped(m, cur, key1, key2, mask, val1, entry2) ==
    LET bit1 == BitAnd(key1, mask)
        bit2 == BitAnd(key2, mask)
    IN  IF bit1 = bit2
        THEN IF mask = Zero
             THEN [m EXCEPT !.fault = "hang"]
             ELSE LET side == IF bit1 = Zero THEN "left" ELSE "right"
                      a == NodeAddr(cur, side)
                      m1 == [m EXCEPT !.nc = @ + 1, !.bh = @ + 1, !.nodes = (a :> ibt_make_node) @@ [@ EXCEPT ![cur][side] = a]]
                  IN  ibt_make_branch(m1, a, key1, key2, ShiftRight1(mask), val1, entry2)
        ELSE LET e1 == EntryAddr(m.entries, key1)
                 l == NodeAddr(cur, "left")
                 r == NodeAddr(cur, "right")
                 el == IF bit1 = Zero THEN entry2 ELSE e1
                 er == IF bit1 = Zero THEN e1 ELSE entry2
             IN  [m EXCEPT !.nc = @ + 2, !.bh = @ + 1, !.entries = (e1 :> ibt_make_entry(key1, val1)) @@ @, !.nodes = (l :> ibt_make_leaf(el)) @@ (r :> ibt_make_leaf(er)) @@ [@ EXCEPT ![cur].left = l, ![cur].right = r]]

\* faulty variant of ibt_make_branch: the leaf of the new key is always the
\* left one
ibt_make_branch_new_leaf_left(m, cur, key1, key2, mask, val1, entry2) ==
    LET bit1 == BitAnd(key1, mask)
        bit2 == BitAnd(key2, mask)
    IN  IF bit1 = bit2
        THEN IF mask = Zero
             THEN [m EXCEPT !.fault = "hang"]
             ELSE LET side == IF bit1 = Zero THEN "left" ELSE "right"
                      a == NodeAddr(cur, side)
                      m1 == [m EXCEPT !.nc = @ + 1, !.bh = @ + 1, !.nodes = (a :> ibt_make_node) @@ [@ EXCEPT ![cur][side] = a]]
                  IN  ibt_make_branch(m1, a, key1, key2, ShiftRight1(mask), val1, entry2)
        ELSE LET e1 == EntryAddr(m.entries, key1)
                 l == NodeAddr(cur, "left")
                 r == NodeAddr(cur, "right")
             IN  [m EXCEPT !.nc = @ + 2, !.bh = @ + 1, !.entries = (e1 :> ibt_make_entry(key1, val1)) @@ @, !.nodes = (l :> ibt_make_leaf(e1)) @@ (r :> ibt_make_leaf(entry2)) @@ [@ EXCEPT ![cur].left = l, ![cur].right = r]]

ibt_make_branch(m, cur, key1, key2, mask, val1, entry2) ==
    LET bit1 == BitAnd(key1, mask)
        bit2 == BitAnd(key2, mask)
    IN  IF bit1 = bit2
        THEN IF mask = Zero
             THEN \* the mask is shifted out: the bits stay equal and the loop never ends
                  [m EXCEPT !.fault = "hang"]
             ELSE LET side == IF bit1 = Zero THEN "left" ELSE "right"
                      a == NodeAddr(cur, side)
                      m1 == [m EXCEPT !.nc = @ + 1, !.bh = @ + 1, !.nodes = (a :> ibt_make_node) @@ [@ EXCEPT ![cur][side] = a]]
                  IN  ibt_make_branch(m1, a, key1, key2, ShiftRight1(mask), val1, entry2)
        ELSE LET e1 == EntryAddr(m.entries, key1)
                 l == NodeAddr(cur, "left")
                 r == NodeAddr(cur, "right")
                 el == IF bit1 = Zero THEN e1 ELSE entry2
                 er == IF bit1 = Zero THEN entry2 ELSE e1
             IN  [m EXCEPT !.nc = @ + 2, !.bh = @ + 1, !.entries = (e1 :> ibt_make_entry(key1, val1)) @@ @, !.nodes = (l :> ibt_make_leaf(el)) @@ (r :> ibt_make_leaf(er)) @@ [@ EXCEPT ![cur].left = l, ![cur].right = r]]

RECURSIVE insert_loop(_, _, _, _, _)

\* faulty variant of insert_loop: an already stored key gets the new value
insert_loop_overwrite(m, cur, key, value, mask) ==
    LET n == m.nodes[cur]
    IN  IF n.right = NULL /\ n.left = NULL
        THEN IF n.entry = NULL
             THEN [m EXCEPT !.fault = "null entry read"]
             ELSE IF key # m.entries[n.entry].key
                  THEN LET e_old == n.entry
                           m1 == [m EXCEPT !.nodes[cur].entry = NULL]
                       IN  ibt_make_branch(m1, cur, key, m.entries[e_old].key, mask, value, e_old)
                  ELSE [m EXCEPT !.entries[n.entry].value = value]
        ELSE LET bit == BitAnd(key, mask)
                 side == IF bit = Zero THEN "left" ELSE "right"
                 m1 == [m EXCEPT !.bh = @ + 1]
             IN  IF n[side] = NULL
                 THEN LET e == EntryAddr(m.entries, key)
                          a == NodeAddr(cur, side)
                      IN  [m1 EXCEPT !.entries = (e :> ibt_make_entry(key, value)) @@ @, !.nodes = (a :> ibt_make_leaf(e)) @@ [@ EXCEPT ![cur][side] = a], !.nc = @ + 1]
                 ELSE insert_loop(m1, n[side], key, value, ShiftRight1(mask))

\* faulty variant of insert_loop: the split leaf keeps its entry
insert_loop_keeps_entry(m, cur, key, value, mask) ==
    LET n == m.nodes[cur]
    IN  IF n.right = NULL /\ n.left = NULL
        THEN IF n.entry = NULL
             THEN [m EXCEPT !.fault = "null entry read"]
             ELSE IF key # m.entries[n.entry].key
                  THEN LET e_old == n.entry
                       IN  ibt_make_branch(m, cur, key, m.entries[e_old].key, mask, value, e_old)
                  ELSE m
        ELSE LET bit == BitAnd(key, mask)
                 side == IF bit = Zero THEN "left" ELSE "right"
                 m1 == [m EXCEPT !.bh = @ + 1]
             IN  IF n[side] = NULL
                 THEN LET e == EntryAddr(m.entries, key)
                          a == NodeAddr(cur, side)
                      IN  [m1 EXCEPT !.entries = (e :> ibt_make_entry(key, value)) @@ @, !.nodes = (a :> ibt_make_leaf(e)) @@ [@ EXCEPT ![cur][side] = a], !.nc = @ + 1]
                 ELSE insert_loop(m1, n[side], key, value, ShiftRight1(mask))

\* faulty variant of insert_loop: the leaf that is reached is split without
\* the test that its key differs from the inserted key
insert_loop_always_splits(m, cur, key, value, mask) ==
    LET n == m.nodes[cur]
    IN  IF n.right = NULL /\ n.left = NULL
        THEN IF n.entry = NULL
             THEN [m EXCEPT !.fault = "null entry read"]
             ELSE LET e_old == n.entry
                      m1 == [m EXCEPT !.nodes[cur].entry = NULL]
                  IN  ibt_make_branch(m1, cur, key, m.entries[e_old].key, mask, value, e_old)
        ELSE LET bit == BitAnd(key, mask)
                 side == IF bit = Zero THEN "left" ELSE "right"
                 m1 == [m EXCEPT !.bh = @ + 1]
             IN  IF n[side] = NULL
                 THEN LET e == EntryAddr(m.entries, key)
                          a == NodeAddr(cur, side)
                      IN  [m1 EXCEPT !.entries = (e :> ibt_make_entry(key, value)) @@ @, !.nodes = (a :> ibt_make_leaf(e)) @@ [@ EXCEPT ![cur][side] = a], !.nc = @ + 1]
                 ELSE insert_loop(m1, n[side], key, value, ShiftRight1(mask))

\* faulty variant of insert_loop: the descent goes on with the mask unshifted
insert_loop_stale_mask(m, cur, key, value, mask) ==
    LET n == m.nodes[cur]
    IN  IF n.right = NULL /\ n.left = NULL
        THEN IF n.entry = NULL
             THEN [m EXCEPT !.fault = "null entry read"]
             ELSE IF key # m.entries[n.entry].key
                  THEN LET e_old == n.entry
                           m1 == [m EXCEPT !.nodes[cur].entry = NULL]
                       IN  ibt_make_branch(m1, cur, key, m.entries[e_old].key, mask, value, e_old)
                  ELSE m
        ELSE LET bit == BitAnd(key, mask)
                 side == IF bit = Zero THEN "left" ELSE "right"
                 m1 == [m EXCEPT !.bh = @ + 1]
             IN  IF n[side] = NULL
                 THEN LET e == EntryAddr(m.entries, key)
                          a == NodeAddr(cur, side)
                      IN  [m1 EXCEPT !.entries = (e :> ibt_make_entry(key, value)) @@ @, !.nodes = (a :> ibt_make_leaf(e)) @@ [@ EXCEPT ![cur][side] = a], !.nc = @ + 1]
                 ELSE insert_loop(m1, n[side], key, value, mask)

\* the insertion loop of ibt_insert_iter, from node cur with the given mask
insert_loop(m, cur, key, value, mask) ==
    LET n == m.nodes[cur]
    IN  IF n.right = NULL /\ n.left = NULL
        THEN IF n.entry = NULL
             THEN [m EXCEPT !.fault = "null entry read"]
             ELSE IF key # m.entries[n.entry].key
                  THEN LET e_old == n.entry
                           m1 == [m EXCEPT !.nodes[cur].entry = NULL]
                       IN  ibt_make_branch(m1, cur, key, m.entries[e_old].key, mask, value, e_old)
                  ELSE m
        ELSE LET bit == BitAnd(key, mask)
                 side == IF bit = Zero THEN "left" ELSE "right"
                 m1 == [m EXCEPT !.bh = @ + 1]
             IN  IF n[side] = NULL
                 THEN LET e == EntryAddr(m.entries, key)
                          a == NodeAddr(cur, side)
                      IN  [m1 EXCEPT !.entries = (e :> ibt_make_entry(key, value)) @@ @, !.nodes = (a :> ibt_make_leaf(e)) @@ [@ EXCEPT ![cur][side] = a], !.nc = @ + 1]
                 ELSE insert_loop(m1, n[side], key, value, ShiftRight1(mask))

ibt_insert_iter(m, rt, key, value) == insert_loop(m, rt, key, value, InitMask)

\* faulty variant of ibt_insert: leaf_nodes counts only the calls whose key
\* is not yet stored
ibt_insert_counts_new_keys(t, key, value) ==
    LET t1 == IF \E a \in DOMAIN t.entries : t.entries[a].key = key THEN t ELSE [t EXCEPT !.leaf_nodes = @ + 1]
    IN  IF t1.root = NULL
        THEN LET e == EntryAddr(t1.entries, key)
             IN  [t1 EXCEPT !.entries = (e :> ibt_make_entry(key, value)) @@ @, !.nodes = (RootAddr :> ibt_make_leaf(e)) @@ @, !.root = RootAddr, !.height = 1, !.num_nodes = 1]
        ELSE LET m == ibt_insert_iter([nodes |-> t1.nodes, entries |-> t1.entries, nc |-> t1.num_nodes, bh |-> 1, fault |-> "none"], t1.root, key, value)
             IN  [t1 EXCEPT !.nodes = m.nodes, !.entries = m.entries, !.num_nodes = m.nc, !.height = IF m.bh > @ THEN m.bh ELSE @, !.fault = m.fault]

\* t = [root, num_nodes, leaf_nodes, height, nodes, entries, fault]
\* faulty variant of ibt_insert: the height is set to the branch height of
\* the last insertion path
ibt_insert_height_last(t, key, value) ==
    LET t1 == [t EXCEPT !.leaf_nodes = @ + 1]
    IN  IF t1.root = NULL
        THEN LET e == EntryAddr(t1.entries, key)
             IN  [t1 EXCEPT !.entries = (e :> ibt_make_entry(key, value)) @@ @, !.nodes = (RootAddr :> ibt_make_leaf(e)) @@ @, !.root = RootAddr, !.height = 1, !.num_nodes = 1]
        ELSE LET m == ibt_insert_iter([nodes |-> t1.nodes, entries |-> t1.entries, nc |-> t1.num_nodes, bh |-> 1, fault |-> "none"], t1.root, key, value)
             IN  [t1 EXCEPT !.nodes = m.nodes, !.entries = m.entries, !.num_nodes = m.nc, !.height = m.bh, !.fault = m.fault]

\* faulty variant of ibt_insert: the branch height starts at 0
ibt_insert_height_from_zero(t, key, value) ==
    LET t1 == [t EXCEPT !.leaf_nodes = @ + 1]
    IN  IF t1.root = NULL
        THEN LET e == EntryAddr(t1.entries, key)
             IN  [t1 EXCEPT !.entries = (e :> ibt_make_entry(key, value)) @@ @, !.nodes = (RootAddr :> ibt_make_leaf(e)) @@ @, !.root = RootAddr, !.height = 1, !.num_nodes = 1]
        ELSE LET m == ibt_insert_iter([nodes |-> t1.nodes, entries |-> t1.entries, nc |-> t1.num_nodes, bh |-> 0, fault |-> "none"], t1.root, key, value)
             IN  [t1 EXCEPT !.nodes = m.nodes, !.entries = m.entries, !.num_nodes = m.nc, !.height = IF m.bh > @ THEN m.bh ELSE @, !.fault = m.fault]

ibt_insert(t, key, value) ==
    LET t1 == [t EXCEPT !.leaf_nodes = @ + 1]
    IN  IF t1.root = NULL
        THEN LET e == EntryAddr(t1.entries, key)
             IN  [t1 EXCEPT !.entries = (e :> ibt_make_entry(key, value)) @@ @, !.nodes = (RootAddr :> ibt_make_leaf(e)) @@ @, !.root = RootAddr, !.height = 1, !.num_nodes = 1]
        ELSE LET m == ibt_insert_iter([nodes |-> t1.nodes, entries |-> t1.entries, nc |-> t1.num_nodes, bh |-> 1, fault |-> "none"], t1.root, key, value)
             IN  [t1 EXCEPT !.nodes = m.nodes, !.entries = m.entries, !.num_nodes = m.nc, !.height = IF m.bh > @ THEN m.bh ELSE @, !.fault = m.fault]

(* ------------------------------- search -------------------------------- *)

RECURSIVE ibt_closest_match_rec(_, _, _)

\* faulty variant of ibt_closest_match_rec: no step into the other child when
\* the child on the side of the mode is absent
ibt_closest_match_rec_no_fallback(hp, node, mode) ==
    IF hp[node].left = NULL /\ hp[node].right = NULL
    THEN hp[node].entry
    ELSE IF mode = "l"
         THEN IF hp[node].left # NULL
              THEN ibt_closest_match_rec(hp, hp[node].left, "l")
              ELSE hp[node].entry
         ELSE IF hp[node].right # NULL
              THEN ibt_closest_match_rec(hp, hp[node].right, "r")
              ELSE hp[node].entry

\* faulty variant of ibt_closest_match_rec: the step into the other child
\* goes on in the other mode
ibt_closest_match_rec_mode_flipped(hp, node, mode) ==
    IF hp[node].left = NULL /\ hp[node].right = NULL
    THEN hp[node].entry
    ELSE IF mode = "l"
         THEN IF hp[node].left # NULL
              THEN ibt_closest_match_rec(hp, hp[node].left, "l")
              ELSE ibt_closest_match_rec(hp, hp[node].right, "r")
         ELSE IF hp[node].right # NULL
              THEN ibt_closest_match_rec(hp, hp[node].right, "r")
              ELSE ibt_closest_match_rec(hp, hp[node].left, "l")

ibt_closest_match_rec(hp, node, mode) ==
    IF hp[node].left = NULL /\ hp[node].right = NULL
    THEN hp[node].entry
    ELSE IF mode = "l"
         THEN IF hp[node].left # NULL
              THEN ibt_closest_match_rec(hp, hp[node].left, "l")
              ELSE ibt_closest_match_rec(hp, hp[node].right, "l")
         ELSE IF hp[node].right # NULL
              THEN ibt_closest_match_rec(hp, hp[node].right, "r")
              ELSE ibt_closest_match_rec(hp, hp[node].left, "r")

RECURSIVE ibt_search_rec(_, _, _, _)

\* faulty variant of ibt_search_rec: the mask is passed on without the shift
ibt_search_rec_same_mask(hp, node, key, mask) ==
    IF hp[node].left = NULL /\ hp[node].right = NULL
    THEN hp[node].entry
    ELSE IF BitAnd(key, mask) = Zero
         THEN IF hp[node].left = NULL
              THEN ibt_closest_match_rec(hp, hp[node].right, "l")
              ELSE ibt_search_rec(hp, hp[node].left, key, mask)
         ELSE IF hp[node].right = NULL
              THEN ibt_closest_match_rec(hp, hp[node].left, "r")
              ELSE ibt_search_rec(hp, hp[node].right, key, mask)

\* faulty variant of ibt_search_rec: the two closest-match modes are swapped
ibt_search_rec_swapped_mode(hp, node, key, mask) ==
    IF hp[node].left = NULL /\ hp[node].right = NULL
    THEN hp[node].entry
    ELSE IF BitAnd(key, mask) = Zero
         THEN IF hp[node].left = NULL
              THEN ibt_closest_match_rec(hp, hp[node].right, "r")
              ELSE ibt_search_rec(hp, hp[node].left, key, ShiftRight1(mask))
         ELSE IF hp[node].right = NULL
              THEN ibt_closest_match_rec(hp, hp[node].left, "l")
              ELSE ibt_search_rec(hp, hp[node].right, key, ShiftRight1(mask))

ibt_search_rec(hp, node, key, mask) ==
    IF hp[node].left = NULL /\ hp[node].right = NULL
    THEN hp[node].entry
    ELSE IF BitAnd(key, mask) = Zero
         THEN IF hp[node].left = NULL
              THEN ibt_closest_match_rec(hp, hp[node].right, "l")
              ELSE ibt_search_rec(hp, hp[node].left, key, ShiftRight1(mask))
         ELSE IF hp[node].right = NULL
              THEN ibt_closest_match_rec(hp, hp[node].left, "r")
              ELSE ibt_search_rec(hp, hp[node].right, key, ShiftRight1(mask))

(* --------------------------- counters, show ---------------------------- *)

ibt_size == leaf_nodes

\* size_t subtraction is modulo 2^64; a value is written by its representative
\* nearest zero, so -1 stands for 2^64 - 1
ibt_node_count == num_nodes - leaf_nodes

ibt_height == height

NoOutput == [out |-> <<>>, err |-> <<>>]

\* out: the entries handed to the user's display function
ibt_show_value(fn, entry) ==
    IF ~fn
    THEN [out |-> <<>>, err |-> <<"error: no user display function defined">>]
    ELSE [out |-> <<entry>>, err |-> <<>>]

RECURSIVE ibt_show_rec(_, _, _)

\* faulty variant of ibt_show_rec: the right subtree is shown before the left
ibt_show_rec_right_first(fn, hp, node) ==
    IF node = NULL
    THEN NoOutput
    ELSE LET l == ibt_show_rec(fn, hp, hp[node].left)
             v == IF hp[node].entry # NULL THEN ibt_show_value(fn, hp[node].entry) ELSE NoOutput
             r == ibt_show_rec(fn, hp, hp[node].right)
         IN  [out |-> r.out \o v.out \o l.out, err |-> r.err \o v.err \o l.err]

ibt_show_rec(fn, hp, node) ==
    IF node = NULL
    THEN NoOutput
    ELSE LET l == ibt_show_rec(fn, hp, hp[node].left)
             v == IF hp[node].entry # NULL THEN ibt_show_value(fn, hp[node].entry) ELSE NoOutput
             r == ibt_show_rec(fn, hp, hp[node].right)
         IN  [out |-> l.out \o v.out \o r.out, err |-> l.err \o v.err \o r.err]

(* ------------------------------ destroy -------------------------------- *)

NothingFreed == [cb |-> <<>>, fe |-> <<>>, fn |-> <<>>]

\* cb: entries handed to the user's disposal function; fe: entries freed;
\* fn: nodes freed
ibt_delete_value(del, hp, node) ==
    LET e == hp[node].entry
    IN  [cb |-> IF e # NULL /\ del THEN <<e>> ELSE <<>>, fe |-> IF e # NULL THEN <<e>> ELSE <<>>, fn |-> <<node>>]

RECURSIVE ibt_destroy_rec(_, _, _)

\* faulty variant of ibt_destroy_rec: the left subtree is not visited
ibt_destroy_rec_skips_left(del, hp, node) ==
    IF node = NULL
    THEN NothingFreed
    ELSE LET r == ibt_destroy_rec(del, hp, hp[node].right)
             v == ibt_delete_value(del, hp, node)
         IN  [cb |-> r.cb \o v.cb, fe |-> r.fe \o v.fe, fn |-> r.fn \o v.fn]

ibt_destroy_rec(del, hp, node) ==
    IF node = NULL
    THEN NothingFreed
    ELSE LET l == ibt_destroy_rec(del, hp, hp[node].left)
             r == ibt_destroy_rec(del, hp, hp[node].right)
             v == ibt_delete_value(del, hp, node)
         IN  [cb |-> l.cb \o r.cb \o v.cb, fe |-> l.fe \o r.fe \o v.fe, fn |-> l.fn \o r.fn \o v.fn]

NoDup(s) == \A i, j \in DOMAIN s : s[i] = s[j] => i = j

\* the effect of ibt_destroy(trie) on the state
ibt_destroy ==
    LET d == ibt_destroy_rec(ibt_delete_entry, nodes, root)
    IN  /\ freed' = d.cb
        /\ nodes' = [a \in DOMAIN nodes \ Range(d.fn) |-> nodes[a]]
        /\ entries' = [a \in DOMAIN entries \ Range(d.fe) |-> entries[a]]
        /\ fault' = IF NoDup(d.fe) /\ NoDup(d.fn) THEN "none" ELSE "double free"
        /\ trie' = "freed"
        /\ root' = NULL
        /\ num_nodes' = 0
        /\ leaf_nodes' = 0
        /\ height' = 0
        /\ ibt_show_value_w' = FALSE
        /\ ibt_delete_entry' = FALSE
        /\ ndestroy' = ndestroy + 1

(* ------------------------------ actions -------------------------------- *)

NoFirst == [k \in Keys |-> 0]

Fresh(show, del) ==
    /\ trie = "live"
    /\ root = NULL
    /\ num_nodes = 0
    /\ leaf_nodes = 0
    /\ height = 0
    /\ ibt_show_value_w = show
    /\ ibt_delete_entry = del
    /\ ncalls = 0
    /\ first = NoFirst

Init ==
    /\ \E show \in BOOLEAN, del \in BOOLEAN : Fresh(show, del)
    /\ nodes = EmptyHeap
    /\ entries = EmptyHeap
    /\ proc = "running"
    /\ op = "ibt_create"
    /\ arg = NULL
    /\ ret = NULL
    /\ shown = <<>>
    /\ freed = <<>>
    /\ stderr = <<>>
    /\ fault = "none"
    /\ ndestroy = 0
    /\ pc = "caller"

\* ibt_create after the previous instance was destroyed (or could not be made)
Create(show, del, ok) ==
    /\ proc = "running"
    /\ trie \in {"freed", "null"}
    /\ IF ok
       THEN /\ trie' = "live"
            /\ ibt_show_value_w' = show
            /\ ibt_delete_entry' = del
       ELSE /\ trie' = "null"
            /\ ibt_show_value_w' = FALSE
            /\ ibt_delete_entry' = FALSE
    /\ root' = NULL
    /\ num_nodes' = 0
    /\ leaf_nodes' = 0
    /\ height' = 0
    /\ ncalls' = 0
    /\ first' = NoFirst
    /\ op' = "ibt_create"
    /\ arg' = NULL
    /\ ret' = NULL
    /\ shown' = <<>>
    /\ freed' = <<>>
    /\ stderr' = <<>>
    /\ fault' = "none"
    /\ ndestroy' = 0
    /\ UNCHANGED <<nodes, entries, proc, pc>>

\* ibt_insert(trie, key, value); the caller passes a value buffer of its own
\* for every call, named by the call's number
Insert(key) ==
    /\ proc = "running"
    /\ trie = "live"
    /\ ncalls < MaxInserts
    /\ LET value == ncalls + 1
           t == ibt_insert([root |-> root, num_nodes |-> num_nodes, leaf_nodes |-> leaf_nodes, height |-> height, nodes |-> nodes, entries |-> entries, fault |-> "none"], key, value)
       IN  /\ root' = t.root
           /\ num_nodes' = t.num_nodes
           /\ leaf_nodes' = t.leaf_nodes
           /\ height' = t.height
           /\ nodes' = t.nodes
           /\ entries' = t.entries
           /\ fault' = t.fault
           /\ first' = IF first[key] = 0 THEN [first EXCEPT ![key] = value] ELSE first
    /\ ncalls' = ncalls + 1
    /\ op' = "ibt_insert"
    /\ arg' = key
    /\ ret' = NULL
    /\ shown' = <<>>
    /\ freed' = <<>>
    /\ stderr' = <<>>
    /\ UNCHANGED <<trie, ibt_show_value_w, ibt_delete_entry, proc, ndestroy, pc>>

\* faulty variant of Search: on an empty trie the error is reported and NULL
\* is returned, the trie is left alone and the run goes on
Search_returns_on_empty(key) ==
    /\ proc = "running"
    /\ trie = "live"
    /\ op' = "ibt_search"
    /\ arg' = key
    /\ shown' = <<>>
    /\ freed' = <<>>
    /\ fault' = "none"
    /\ IF root = NULL
       THEN /\ stderr' = <<"error: cannot query an empty trie">>
            /\ ret' = NULL
       ELSE /\ ret' = ibt_search_rec(nodes, root, key, InitMask)
            /\ stderr' = <<>>
    /\ UNCHANGED <<trie, root, num_nodes, leaf_nodes, height, ibt_show_value_w, ibt_delete_entry, nodes, entries, proc, ncalls, first, ndestroy, pc>>

\* ibt_search(trie, key)
Search(key) ==
    /\ proc = "running"
    /\ trie = "live"
    /\ op' = "ibt_search"
    /\ arg' = key
    /\ shown' = <<>>
    /\ IF root = NULL
       THEN /\ stderr' = <<"error: cannot query an empty trie">>
            /\ ibt_destroy
            /\ proc' = "exited"
            /\ ret' = NULL
       ELSE /\ ret' = ibt_search_rec(nodes, root, key, InitMask)
            /\ stderr' = <<>>
            /\ freed' = <<>>
            /\ fault' = "none"
            /\ UNCHANGED <<trie, root, num_nodes, leaf_nodes, height, ibt_show_value_w, ibt_delete_entry, nodes, entries, proc, ndestroy>>
    /\ UNCHANGED <<ncalls, first, pc>>

\* ibt_show(trie, stream)
Show ==
    /\ proc = "running"
    /\ trie = "live"
    /\ LET s == ibt_show_rec(ibt_show_value_w, nodes, root)
       IN  /\ shown' = s.out
           /\ stderr' = s.err
    /\ op' = "ibt_show"
    /\ arg' = NULL
    /\ ret' = NULL
    /\ freed' = <<>>
    /\ fault' = "none"
    /\ UNCHANGED <<trie, root, num_nodes, leaf_nodes, height, ibt_show_value_w, ibt_delete_entry, nodes, entries, proc, ncalls, first, ndestroy, pc>>

\* ibt_destroy(trie)
Destroy ==
    /\ proc = "running"
    /\ trie = "live"
    /\ ibt_destroy
    /\ op' = "ibt_destroy"
    /\ arg' = NULL
    /\ ret' = NULL
    /\ shown' = <<>>
    /\ stderr' = <<>>
    /\ UNCHANGED <<proc, ncalls, first, pc>>

Next ==
    \/ \E key \in Keys : Insert(key)
    \/ \E key \in Queries : Search(key)
    \/ Show
    \/ Destroy
    \/ \E show \in BOOLEAN, del \in BOOLEAN, ok \in BOOLEAN : Create(show, del, ok)

Spec == Init /\ [][Next]_vars

(* ------------------------------ place_ip ------------------------------- *)

\* main before its call of ibt_create: argc is 2 and the file is open
PlaceIpInit ==
    /\ trie = "null"
    /\ root = NULL
    /\ num_nodes = 0
    /\ leaf_nodes = 0
    /\ height = 0
    /\ ibt_show_value_w = FALSE
    /\ ibt_delete_entry = FALSE
    /\ nodes = EmptyHeap
    /\ entries = EmptyHeap
    /\ proc = "running"
    /\ op = "main"
    /\ arg = NULL
    /\ ret = NULL
    /\ shown = <<>>
    /\ freed = <<>>
    /\ stderr = <<>>
    /\ fault = "none"
    /\ ncalls = 0
    /\ first = NoFirst
    /\ ndestroy = 0
    /\ pc = "main"

\* exit(EXIT_FAILURE), or return from main
Exit ==
    /\ proc' = "exited"
    /\ pc' = "done"

\* Trie trie = ibt_create(place_ip_show_value, delete_entry) and the test of
\* its result
main_ibt_create(ok) ==
    /\ proc = "running"
    /\ pc = "main"
    /\ IF ok
       THEN /\ trie' = "live"
            /\ ibt_show_value_w' = TRUE
            /\ ibt_delete_entry' = TRUE
            /\ stderr' = <<>>
            /\ pc' = "read_csv"
            /\ proc' = proc
       ELSE /\ stderr' = <<"error: failed to allocate memory for trie">>
            /\ Exit
            /\ UNCHANGED <<trie, ibt_show_value_w, ibt_delete_entry>>
    /\ op' = "ibt_create"
    /\ UNCHANGED <<root, num_nodes, leaf_nodes, height, nodes, entries, arg, ret, shown, freed, fault, ncalls, first, ndestroy>>

\* read_to_trie on a line with the bounds lower_num and upper_num: the two
\* ibt_insert calls, each with a buffer of its own
read_to_trie(lower_num, upper_num) ==
    LET t0 == [root |-> root, num_nodes |-> num_nodes, leaf_nodes |-> leaf_nodes, height |-> height, nodes |-> nodes, entries |-> entries, fault |-> "none"]
        t1 == ibt_insert(t0, lower_num, ncalls + 1)
        t2 == ibt_insert(t1, upper_num, ncalls + 2)
        f1 == IF first[lower_num] = 0 THEN [first EXCEPT ![lower_num] = ncalls + 1] ELSE first
    IN  /\ root' = t2.root
        /\ num_nodes' = t2.num_nodes
        /\ leaf_nodes' = t2.leaf_nodes
        /\ height' = t2.height
        /\ nodes' = t2.nodes
        /\ entries' = t2.entries
        /\ fault' = IF t1.fault # "none" THEN t1.fault ELSE t2.fault
        /\ first' = IF f1[upper_num] = 0 THEN [f1 EXCEPT ![upper_num] = ncalls + 2] ELSE f1
        /\ ncalls' = ncalls + 2
        /\ op' = "ibt_insert"
        /\ arg' = upper_num
        /\ ret' = NULL
        /\ shown' = <<>>
        /\ freed' = <<>>
        /\ stderr' = <<>>
        /\ UNCHANGED <<trie, ibt_show_value_w, ibt_delete_entry, proc, ndestroy, pc>>

\* read_csv: getline reads a line of three fields or more, no read error
read_csv_line(lower_num, upper_num) ==
    /\ proc = "running"
    /\ pc = "read_csv"
    /\ ncalls < 2 * MaxLines
    /\ read_to_trie(lower_num, upper_num)

\* read_csv: getline reads a line of fewer than three fields (a blank line):
\* strtok returns NULL for upper_str or country_data and read_to_trie hands
\* it to sscanf or strlen, which is undefined: the process is killed by a
\* signal, or it goes on and inserts whatever the two numbers hold
read_csv_short_line(crash, lower_num, upper_num) ==
    /\ proc = "running"
    /\ pc = "read_csv"
    /\ ncalls < 2 * MaxLines
    /\ IF crash
       THEN /\ proc' = "killed"
            /\ pc' = "done"
            /\ op' = "read_to_trie"
            /\ fault' = "null string read"
            /\ UNCHANGED <<trie, root, num_nodes, leaf_nodes, height, ibt_show_value_w, ibt_delete_entry, nodes, entries, arg, ret, shown, freed, stderr, ncalls, first, ndestroy>>
       ELSE read_to_trie(lower_num, upper_num)

\* read_csv: getline reads a line and ferror(stream) is set
read_csv_error ==
    /\ proc = "running"
    /\ pc = "read_csv"
    /\ stderr' = <<"read failed">>
    /\ ibt_destroy
    /\ Exit
    /\ op' = "ibt_destroy"
    /\ UNCHANGED <<arg, ret, shown, ncalls, first>>

\* read_csv: getline reads nothing more and no line was read (empty is 1)
read_csv_empty ==
    /\ proc = "running"
    /\ pc = "read_csv"
    /\ ncalls = 0
    /\ stderr' = <<"error: empty dataset">>
    /\ ibt_destroy
    /\ Exit
    /\ op' = "ibt_destroy"
    /\ UNCHANGED <<arg, ret, shown, ncalls, first>>

\* read_csv: getline reads nothing more after some line (empty is 0);
\* read_csv returns and main calls display_stats
read_csv_done ==
    /\ proc = "running"
    /\ pc = "read_csv"
    /\ ncalls > 0
    /\ pc' = "query"
    /\ op' = "display_stats"
    /\ arg' = NULL
    /\ ret' = NULL
    /\ shown' = <<>>
    /\ freed' = <<>>
    /\ stderr' = <<>>
    /\ fault' = "none"
    /\ UNCHANGED <<trie, root, num_nodes, leaf_nodes, height, ibt_show_value_w, ibt_delete_entry, nodes, entries, proc, ncalls, first, ndestroy>>

\* the query loop reads a query and calls execute_query: ibt_search (which
\* on a trie without root reports, destroys and exits), the test of its
\* result and ibt_show_value.  The key is any key: a query that fgets did not
\* fill holds anything.
execute_query(key) ==
    /\ proc = "running"
    /\ pc = "query"
    /\ op' = "ibt_search"
    /\ arg' = key
    /\ IF root = NULL
       THEN /\ stderr' = <<"error: cannot query an empty trie">>
            /\ ibt_destroy
            /\ Exit
            /\ ret' = NULL
            /\ shown' = <<>>
       ELSE LET res == ibt_search_rec(nodes, root, key, InitMask)
            IN  IF res = NULL
                THEN /\ stderr' = <<"error: query failure">>
                     /\ ibt_destroy
                     /\ Exit
                     /\ ret' = NULL
                     /\ shown' = <<>>
                ELSE /\ ret' = res
                     /\ shown' = ibt_show_value(ibt_show_value_w, res).out
                     /\ stderr' = ibt_show_value(ibt_show_value_w, res).err
                     /\ freed' = <<>>
                     /\ fault' = "none"
                     /\ UNCHANGED <<trie, root, num_nodes, leaf_nodes, height, ibt_show_value_w, ibt_delete_entry, nodes, entries, proc, ndestroy, pc>>
    /\ UNCHANGED <<ncalls, first>>

\* the query loop reads a blank line or the end of stdin: break,
\* ibt_destroy(trie), return EXIT_SUCCESS
main_quit ==
    /\ proc = "running"
    /\ pc = "query"
    /\ ibt_destroy
    /\ Exit
    /\ op' = "ibt_destroy"
    /\ arg' = NULL
    /\ ret' = NULL
    /\ shown' = <<>>
    /\ stderr' = <<>>
    /\ UNCHANGED <<ncalls, first>>

PlaceIpNext ==
    \/ \E ok \in BOOLEAN : main_ibt_create(ok)
    \/ \E lower_num \in Keys, upper_num \in Keys : read_csv_line(lower_num, upper_num)
    \/ \E crash \in BOOLEAN, lower_num \in Keys, upper_num \in Keys : read_csv_short_line(crash, lower_num, upper_num)
    \/ read_csv_error
    \/ read_csv_empty
    \/ read_csv_done
    \/ \E key \in Queries : execute_query(key)
    \/ main_quit

PlaceIp == PlaceIpInit /\ [][PlaceIpNext]_vars

(* ------------------- what the tree holds (for the properties) ---------- *)

\* the nodes reachable from node through left and right
RECURSIVE Reach(_, _)
Reach(hp, node) == IF node = NULL THEN {} ELSE {node} \cup Reach(hp, hp[node].left) \cup Reach(hp, hp[node].right)

TreeNodes == Reach(nodes, root)

StoredEntries == {nodes[a].entry : a \in TreeNodes} \ {NULL}

StoredKeys == {entries[e].key : e \in StoredEntries}

InsertedKeys == {k \in Keys : first[k] # 0}

BranchNodes == {a \in TreeNodes : nodes[a].entry = NULL}

Count(s, x) == Cardinality({i \in DOMAIN s : s[i] = x})

\* bit 31 - d of key: the bit that decides the step taken at depth d
KeyBit(key, d) == IF d < 16 THEN (key.hi \div 2^(15 - d)) % 2 ELSE IF d < 32 THEN (key.lo \div 2^(31 - d)) % 2 ELSE 0

(* ------------------------------- C1 ------------------------------------ *)

\* C1: after any sequence of ibt_insert calls, ibt_search with a key that was
\* passed to some ibt_insert call returns the entry whose key is that key.
C1_SearchFindsInsertedKey ==
    (trie = "live" /\ op = "ibt_search" /\ arg \in InsertedKeys) => (ret \in DOMAIN entries /\ entries[ret].key = arg)

\* an inserted key is searched for in a trie of three keys, below the root
C1_Witness ==
    /\ trie = "live"
    /\ op = "ibt_search"
    /\ arg \in InsertedKeys
    /\ Cardinality(InsertedKeys) = 3
    /\ height > 3
    /\ entries[ret].key = arg

(* ------------------------------- C2 ------------------------------------ *)

\* an ibt_insert step: its key is arg', its value is the call's number ncalls'
C2_Step ==
    (op' = "ibt_insert" /\ ncalls' = ncalls + 1) =>
        IF arg' \in StoredKeys
        THEN nodes' = nodes /\ entries' = entries /\ root' = root
        ELSE \E e \in StoredEntries' \ StoredEntries :
                /\ StoredEntries' = StoredEntries \cup {e}
                /\ entries'[e] = [key |-> arg', value |-> ncalls']
                /\ \A x \in StoredEntries : entries'[x] = entries[x]

C2_Inv ==
    trie = "live" =>
        /\ StoredKeys = InsertedKeys
        /\ Cardinality(StoredEntries) = Cardinality(StoredKeys)
        /\ \A e \in StoredEntries : entries[e].value = first[entries[e].key]

\* C2: ibt_insert adds exactly one new entry (key, value) when the key is not
\* stored and changes no node, entry or stored value when it is; so the stored
\* keys are the distinct keys inserted, each with the value of its first
\* insertion.
C2_InsertAddsOnceOrNothing == [][C2_Step]_vars /\ []C2_Inv

\* the last call inserted an already stored key with another value
C2_Witness ==
    /\ trie = "live"
    /\ op = "ibt_insert"
    /\ ncalls = 3
    /\ Cardinality(StoredKeys) = 2
    /\ first[arg] = 1
    /\ \E e \in StoredEntries : entries[e].key = arg /\ entries[e].value = 1

(* ------------------------------- C3 ------------------------------------ *)

C3_Step ==
    (op' = "ibt_search" /\ trie = "live" /\ root # NULL) =>
        /\ ret' # NULL
        /\ ret' \in StoredEntries
        /\ UNCHANGED <<root, nodes, entries, num_nodes, leaf_nodes, height>>
        /\ ibt_size' = ibt_size
        /\ ibt_node_count' = ibt_node_count
        /\ ibt_height' = ibt_height

\* C3: on a trie that holds an entry, ibt_search returns for every key a
\* non-null entry that is stored in the trie, and leaves the tree and the
\* counters behind ibt_size, ibt_node_count and ibt_height unchanged.
C3_SearchReturnsStoredEntry == [][C3_Step]_vars

\* a search for a key that is not stored returned an entry
C3_Witness ==
    /\ trie = "live"
    /\ op = "ibt_search"
    /\ arg \notin StoredKeys
    /\ Cardinality(StoredKeys) >= 2
    /\ ret \in StoredEntries

(* ------------------------------- C4 ------------------------------------ *)

NoDiversion == [node |-> NULL, bias |-> "none"]

\* the branch at which the exact descent for key, from node at depth d, needs
\* a child that is absent, with the side of that child
RECURSIVE Diversion(_, _, _, _)
Diversion(hp, node, key, d) ==
    IF hp[node].left = NULL /\ hp[node].right = NULL
    THEN NoDiversion
    ELSE LET side == IF KeyBit(key, d) = 0 THEN "left" ELSE "right"
         IN  IF hp[node][side] = NULL
             THEN [node |-> node, bias |-> side]
             ELSE Diversion(hp, hp[node][side], key, d + 1)

\* the leaf reached from node by stepping into the child on the bias side if
\* it exists and into the other child otherwise
RECURSIVE BiasedLeaf(_, _, _)
BiasedLeaf(hp, node, bias) ==
    IF hp[node].left = NULL /\ hp[node].right = NULL
    THEN node
    ELSE LET other == IF bias = "left" THEN "right" ELSE "left"
         IN  IF hp[node][bias] # NULL THEN BiasedLeaf(hp, hp[node][bias], bias) ELSE BiasedLeaf(hp, hp[node][other], bias)

\* C4: when the exact descent of ibt_search reaches a branch whose child
\* required by the key bit is absent, the entry returned is that of the leaf
\* reached from that branch by biased descent, the bias being the side of the
\* absent child.
C4_ClosestMatchFollowsBias ==
    (trie = "live" /\ op = "ibt_search" /\ root # NULL) =>
        LET dv == Diversion(nodes, root, arg, 0)
        IN  dv.node # NULL => ret = nodes[BiasedLeaf(nodes, dv.node, dv.bias)].entry

\* a search diverted below the root, and the biased descent had to step
\* through a branch without a child on the bias side
C4_Witness ==
    /\ trie = "live"
    /\ op = "ibt_search"
    /\ root # NULL
    /\ LET dv == Diversion(nodes, root, arg, 0)
       IN  /\ dv.node # NULL
           /\ dv.node # root
           /\ \E a \in Reach(nodes, dv.node) \ {dv.node} : nodes[a].entry = NULL /\ nodes[a][dv.bias] = NULL
           /\ ret = nodes[BiasedLeaf(nodes, dv.node, dv.bias)].entry

(* ------------------------------- C5 ------------------------------------ *)

\* C5: an ibt_insert call with a key that is already stored leaves the value
\* of ibt_node_count unchanged.
C5_DuplicateInsertKeepsNodeCount ==
    [][(op' = "ibt_insert" /\ ncalls' = ncalls + 1 /\ arg' \in StoredKeys) => ibt_node_count' = ibt_node_count]_vars

(* ------------------------------- C6 ------------------------------------ *)

\* C6: after any sequence of ibt_insert calls, ibt_node_count is the number
\* of branch nodes of the tree (the nodes that hold no entry).
C6_NodeCountIsBranchCount ==
    trie = "live" => ibt_node_count = Cardinality(BranchNodes)

(* ------------------------------- C7 ------------------------------------ *)

\* C7: ibt_size is the number of ibt_insert calls made since ibt_create,
\* calls with an already stored key included: every call adds exactly 1.
C7_SizeCountsInsertCalls ==
    /\ [][(op' = "ibt_insert" /\ ncalls' = ncalls + 1) => ibt_size' = ibt_size + 1]_vars
    /\ [](trie = "live" => ibt_size = ncalls)

\* three calls were made and fewer than three keys are stored
C7_Witness ==
    /\ trie = "live"
    /\ op = "ibt_insert"
    /\ ibt_size = 3
    /\ Cardinality(StoredKeys) < 3

(* ------------------------------- C8 ------------------------------------ *)

\* exactly the keys 0x00000001 and 0x00000003 were inserted, once each, into
\* a fresh trie
InsertedOneAndThree ==
    /\ trie = "live"
    /\ ncalls = 2
    /\ InsertedKeys = {Word(0, 1), Word(0, 3)}

\* C8 as stated: after inserting 0x00000001 and 0x00000003 into a fresh trie,
\* ibt_height returns 31.
C8_HeightIs31 == InsertedOneAndThree => ibt_height = 31

\* C8 as amended: after inserting 0x00000001 and 0x00000003 into a fresh
\* trie, ibt_height returns 32 (the root, 30 branch levels for the shared
\* bits 30..1, and the level of the two leaves).
C8_HeightIs32 == InsertedOneAndThree => ibt_height = 32

C8_Witness == InsertedOneAndThree /\ op = "ibt_insert" /\ Cardinality(StoredKeys) = 2

(* ------------------------------- C9 ------------------------------------ *)

\* C9: after any sequence of ibt_insert calls, ibt_show hands every stored
\* entry to the display callback exactly once, in strictly ascending order of
\* the keys (for a trie that has a display callback).
C9_ShowAscendingOnce ==
    (trie = "live" /\ op = "ibt_show" /\ ibt_show_value_w) =>
        /\ \A e \in StoredEntries : Count(shown, e) = 1
        /\ Range(shown) \subseteq StoredEntries
        /\ \A i, j \in DOMAIN shown : i < j => Less(entries[shown[i]].key, entries[shown[j]].key)

\* three entries were shown, from both sides of the root
C9_Witness ==
    /\ trie = "live"
    /\ op = "ibt_show"
    /\ Len(shown) = 3
    /\ nodes[root].left # NULL
    /\ nodes[root].right # NULL

(* ------------------------------- C10 ----------------------------------- *)

\* a step that destroys a trie made with a disposal callback
C10_Step ==
    (trie = "live" /\ trie' = "freed" /\ ibt_delete_entry) =>
        /\ \A e \in StoredEntries : Count(freed', e) = 1
        /\ Range(freed') \subseteq StoredEntries

\* C10: ibt_destroy on a trie created with a disposal callback invokes the
\* callback exactly once for each entry stored in the tree, whatever inserts
\* (of already stored keys too) came before.
C10_DestroyDisposesEachEntryOnce == [][C10_Step]_vars

\* a trie of two entries, made by three inserts, was destroyed
C10_Witness ==
    /\ trie = "freed"
    /\ op = "ibt_destroy"
    /\ ncalls = 3
    /\ Len(freed) = 2

(* ------------------------------- C11 ----------------------------------- *)

\* a step that destroys a trie made with a disposal callback: the values
\* passed to ibt_insert so far are 1..ncalls
C11_Step ==
    (trie = "live" /\ trie' = "freed" /\ ibt_delete_entry) =>
        \A v \in 1..ncalls : \E i \in DOMAIN freed' : entries[freed'[i]].value = v

\* C11: every value handed to ibt_insert is released when the trie is
\* destroyed: for every ibt_insert call made before ibt_destroy the disposal
\* callback is invoked on an entry holding that call's value.
C11_EveryInsertedValueReleased == [][C11_Step]_vars

(* ------------------------------- C12 ----------------------------------- *)

C12_Step ==
    (op' = "ibt_search" /\ trie = "live") =>
        IF root = NULL
        THEN /\ ret' = NULL
             /\ stderr' = <<"error: cannot query an empty trie">>
             /\ trie' = "freed"
             /\ proc' = "exited"
        ELSE /\ stderr' = <<>>
             /\ trie' = "live"
             /\ proc' = "running"

\* C12: ibt_search on a trie with no root returns no entry: it reports the
\* empty-trie error, destroys the trie and ends the run, so that no trie
\* operation follows; on a trie with a root this path is not taken.
C12_EmptySearchEndsRun == [][C12_Step]_vars /\ [](proc = "exited" => ~ENABLED Next)

\* the run was ended by a search on an empty trie
C12_Witness ==
    /\ proc = "exited"
    /\ op = "ibt_search"
    /\ trie = "freed"
    /\ stderr = <<"error: cannot query an empty trie">>

(* ------------------------------- C13 ----------------------------------- *)

IsLeaf(n) == n.entry # NULL /\ n.left = NULL /\ n.right = NULL

IsBranch(n) == n.entry = NULL /\ (n.left # NULL \/ n.right # NULL)

\* C13: in every state reached by ibt_insert calls every node of the tree is
\* a leaf (an entry, no child) or a branch (no entry, at least one child).
C13_LeafOrBranch ==
    trie = "live" => \A a \in TreeNodes : IsLeaf(nodes[a]) \/ IsBranch(nodes[a])

\* a tree of three leaves with a branch of one child and a branch of two
C13_Witness ==
    /\ trie = "live"
    /\ op = "ibt_insert"
    /\ Cardinality(StoredKeys) = 3
    /\ \E a \in TreeNodes : nodes[a].entry = NULL /\ (nodes[a].left = NULL) # (nodes[a].right = NULL)
    /\ \E a \in TreeNodes : nodes[a].left # NULL /\ nodes[a].right # NULL

(* ------------------------------- C14 ----------------------------------- *)

\* the nodes met from node, which is at depth d, each with its depth
RECURSIVE Placed(_, _, _)
Placed(hp, node, d) == IF node = NULL THEN {} ELSE {[node |-> node, depth |-> d]} \cup Placed(hp, hp[node].left, d + 1) \cup Placed(hp, hp[node].right, d + 1)

\* the leaves among them
Leaves(hp, node, d) == {x \in Placed(hp, node, d) : hp[x.node].left = NULL /\ hp[x.node].right = NULL}

\* C14: every ibt_insert and ibt_search call terminates and no node lies
\* more than 32 levels below the root: the loop of ibt_make_branch never runs
\* with the mask shifted to zero and the two bits equal, and every node with
\* a child, at which a descent tests a bit, lies less than 32 levels below
\* the root, where the mask is not zero.
C14_InsertAndSearchTerminate ==
    /\ fault # "hang"
    /\ trie = "live" => \A x \in Placed(nodes, root, 0) :
                            /\ x.depth <= BITSPERWORD
                            /\ (nodes[x.node].left # NULL \/ nodes[x.node].right # NULL) => x.depth < BITSPERWORD

\* a search has run on a tree with leaves 32 levels below the root, made by
\* two keys that part at the last bit
C14_Witness ==
    /\ trie = "live"
    /\ op = "ibt_search"
    /\ ret # NULL
    /\ fault = "none"
    /\ \E l \in Leaves(nodes, root, 0) : l.depth = BITSPERWORD

(* ------------------------------- C15 ----------------------------------- *)

\* C15: in every state reached by ibt_insert calls, inserts of stored keys
\* included, num_nodes is the number of nodes of the tree.
C15_NumNodesCountsTreeNodes ==
    trie = "live" => num_nodes = Cardinality(TreeNodes)

\* a stored key was inserted again into a tree of two leaves under a chain
C15_Witness ==
    /\ trie = "live"
    /\ op = "ibt_insert"
    /\ ncalls = 3
    /\ Cardinality(StoredKeys) = 2
    /\ num_nodes > 3

(* ------------------------------- C16 ----------------------------------- *)

\* the depth of the first bit, from bit 31 down, at which two keys differ
FirstDiff(key1, key2) == CHOOSE d \in 0..(BITSPERWORD - 1) : KeyBit(key1, d) # KeyBit(key2, d) /\ \A e \in 0..(d - 1) : KeyBit(key1, e) = KeyBit(key2, e)

\* where the exact descent for key ends, from node at depth d: at a leaf, or
\* at a branch whose child required by the key bit is absent (missing)
RECURSIVE DescentEnd(_, _, _, _)
DescentEnd(hp, node, key, d) ==
    IF hp[node].left = NULL /\ hp[node].right = NULL
    THEN [node |-> node, depth |-> d, missing |-> FALSE]
    ELSE LET side == IF KeyBit(key, d) = 0 THEN "left" ELSE "right"
         IN  IF hp[node][side] = NULL
             THEN [node |-> node, depth |-> d, missing |-> TRUE]
             ELSE DescentEnd(hp, hp[node][side], key, d + 1)

\* the number of nodes an insert of key adds to the present tree: 1 for the
\* first leaf or for a leaf in the place of an absent child, 0 for a stored
\* key, and for a leaf that is split one chain node for each bit that the two
\* keys share from the depth of that leaf down, and two leaves
NodesCreatedBy(key) ==
    IF root = NULL
    THEN 1
    ELSE LET x == DescentEnd(nodes, root, key, 0)
         IN  IF x.missing
             THEN 1
             ELSE LET key2 == entries[nodes[x.node].entry].key
                  IN  IF key2 = key THEN 0 ELSE FirstDiff(key, key2) - x.depth + 2

\* a step that is an ibt_insert call
InsertStep == trie = "live" /\ trie' = "live" /\ ncalls' = ncalls + 1

\* the number of nodes the step adds to the tree
CreatedCount == Cardinality(TreeNodes' \ TreeNodes)

C16_Step == InsertStep => (TreeNodes \subseteq TreeNodes' /\ CreatedCount = NodesCreatedBy(arg') /\ CreatedCount <= BITSPERWORD + 1)

C16_OriginalStep == InsertStep => CreatedCount <= 2

\* C16 (as stated): a single ibt_insert call creates at most 2 new nodes.
C16_AtMostTwoNewNodes == [][C16_OriginalStep]_vars

\* C16 (amended): a single ibt_insert call creates at most 33 new nodes
\* (BITSPERWORD + 1): none for a stored key, 1 for the first leaf or for a
\* leaf put in the place of an absent child, and when a leaf is split 2
\* leaves and one chain node for each bit that the two keys share from the
\* depth of the split leaf down.
C16_AtMostWordPlusOneNewNodes == [][C16_Step]_vars

\* the second insert has split the root leaf down to the last bit: 33 nodes
\* were added to the one there was
C16_Witness ==
    /\ trie = "live"
    /\ op = "ibt_insert"
    /\ ncalls = 2
    /\ Cardinality(TreeNodes) = BITSPERWORD + 2

(* ------------------------------- C17 ----------------------------------- *)

\* a step that is an ibt_insert or an ibt_search call the trie lives through
C17_Step ==
    (trie = "live" /\ trie' = "live" /\ op' \in {"ibt_insert", "ibt_search"}) => ibt_height' >= ibt_height

\* C17: ibt_height never decreases: after an ibt_insert or ibt_search call
\* it is greater than or equal to what it was before the call.
C17_HeightNeverDecreases == [][C17_Step]_vars

\* the last insert put its key in a leaf right below the root of a trie
\* whose height remains 32
C17_Witness ==
    /\ trie = "live"
    /\ op = "ibt_insert"
    /\ ibt_height = BITSPERWORD
    /\ \E x \in Leaves(nodes, root, 0) : x.depth = 1 /\ entries[nodes[x.node].entry].key = arg

(* ------------------------------- C18 ----------------------------------- *)

\* the leaves met from node, each with the steps that lead to it (0 for a
\* left step, 1 for a right step), path being the steps that lead to node
RECURSIVE Routes(_, _, _)
Routes(hp, node, path) == IF node = NULL THEN {} ELSE IF hp[node].left = NULL /\ hp[node].right = NULL THEN {[node |-> node, path |-> path]} ELSE Routes(hp, hp[node].left, Append(path, 0)) \cup Routes(hp, hp[node].right, Append(path, 1))

\* the keys stored in the subtree of node
KeysUnder(hp, node) == {entries[hp[a].entry].key : a \in {b \in Reach(hp, node) : hp[b].entry # NULL}}

\* C18: in every state reached by ibt_insert calls the d most significant
\* bits of the key of a leaf at depth d spell the path from the root to the
\* leaf, and every key of a left subtree is smaller than every key of the
\* sibling right subtree.
C18_KeyBitsSpellPath ==
    trie = "live" =>
        /\ \A x \in Routes(nodes, root, <<>>) :
               /\ nodes[x.node].entry # NULL
               /\ \A i \in 1..Len(x.path) : KeyBit(entries[nodes[x.node].entry].key, i - 1) = x.path[i]
        /\ \A a \in TreeNodes : \A k1 \in KeysUnder(nodes, nodes[a].left) : \A k2 \in KeysUnder(nodes, nodes[a].right) : Less(k1, k2)

\* three keys are stored, one in a leaf 32 steps below the root and one in
\* a leaf one step below it
C18_Witness ==
    /\ trie = "live"
    /\ op = "ibt_insert"
    /\ Cardinality(StoredKeys) = 3
    /\ \E x \in Routes(nodes, root, <<>>) : Len(x.path) = BITSPERWORD
    /\ \E x \in Routes(nodes, root, <<>>) : Len(x.path) = 1

(* ------------------------------- C19 ----------------------------------- *)

Max(S) == CHOOSE x \in S : \A y \in S : y <= x

\* C19: after ibt_insert calls ibt_height is the number of nodes on the
\* longest path from the root to a leaf, 1 + the largest leaf depth; for a
\* trie without entries it is 0.
C19_HeightIsLongestPath ==
    trie = "live" => ibt_height = (IF root = NULL THEN 0 ELSE 1 + Max({x.depth : x \in Leaves(nodes, root, 0)}))

\* the last insert made a path shorter than the longest, of 33 nodes
C19_Witness ==
    /\ trie = "live"
    /\ op = "ibt_insert"
    /\ ncalls = 3
    /\ ibt_height = BITSPERWORD + 1
    /\ \E x \in Leaves(nodes, root, 0) : x.depth < BITSPERWORD /\ entries[nodes[x.node].entry].key = arg

(* ------------------------------- C20 ----------------------------------- *)

\* C20: when ibt_search for a key q turns to the closest match, the key it
\* returns is the smallest stored key greater than q if the absent child was
\* the left one, and the largest stored key smaller than q if it was the
\* right one.
C20_ClosestMatchIsNeighbour ==
    (trie = "live" /\ op = "ibt_search" /\ root # NULL) =>
        LET dv == Diversion(nodes, root, arg, 0)
        IN  dv.node # NULL =>
                /\ ret \in StoredEntries
                /\ IF dv.bias = "left"
                   THEN /\ Less(arg, entries[ret].key)
                        /\ \A k \in StoredKeys : Less(arg, k) => (k = entries[ret].key \/ Less(entries[ret].key, k))
                   ELSE /\ Less(entries[ret].key, arg)
                        /\ \A k \in StoredKeys : Less(k, arg) => (k = entries[ret].key \/ Less(k, entries[ret].key))

\* the closest match stepped into the other child on its way: the search
\* met a branch without the required child whose only child is a branch
\* without a child on the bias side, in a trie with a stored key on either
\* side of the query
C20_Witness ==
    /\ trie = "live"
    /\ op = "ibt_search"
    /\ root # NULL
    /\ \E k \in StoredKeys : Less(k, arg)
    /\ \E k \in StoredKeys : Less(arg, k)
    /\ LET dv == Diversion(nodes, root, arg, 0)
       IN  /\ dv.node # NULL
           /\ LET other == IF dv.bias = "left" THEN "right" ELSE "left"
                   child == nodes[dv.node][other]
               IN  nodes[child][dv.bias] = NULL /\ nodes[child][other] # NULL

(* ------------------------------- C21 ----------------------------------- *)

\* the trie ibt_create returns
FreshTrie == [root |-> NULL, num_nodes |-> 0, leaf_nodes |-> 0, height |-> 0, nodes |-> EmptyHeap, entries |-> EmptyHeap, fault |-> "none"]

\* the trie after ibt_insert of order[i], order[i + 1], ... into t, the value
\* of a call being its number
RECURSIVE InsertAll(_, _, _)
InsertAll(t, order, i) == IF i > Len(order) THEN t ELSE InsertAll(ibt_insert(t, order[i], i), order, i + 1)

\* the orders in which the keys of S can be inserted, each key once
Orders(S) == {order \in [1..Cardinality(S) -> S] : \A i, j \in 1..Cardinality(S) : i # j => order[i] # order[j]}

\* the shape of the tree below node with the key held at each leaf
RECURSIVE Shape(_, _, _)
Shape(hp, ents, node) == IF node = NULL THEN <<>> ELSE [key |-> IF hp[node].entry = NULL THEN <<>> ELSE ents[hp[node].entry].key, left |-> Shape(hp, ents, hp[node].left), right |-> Shape(hp, ents, hp[node].right)]

\* the key of the entry ibt_search returns for the query q
SearchKey(hp, ents, rt, q) == ents[ibt_search_rec(hp, rt, q, InitMask)].key

\* C21: for pairwise distinct keys the insertion order does not matter: the
\* trie as an ibt_insert call leaves it and the trie made from a fresh one by
\* inserting the same keys in any other order have the same shape with the
\* same key at each leaf, the same ibt_height and ibt_node_count, and
\* ibt_search returns the same key for every query.
C21_OrderDoesNotMatter ==
    (trie = "live" /\ op = "ibt_insert" /\ ncalls = Cardinality(StoredKeys)) =>
        \A order \in Orders(StoredKeys) :
            LET t == InsertAll(FreshTrie, order, 1)
            IN  /\ t.fault = "none"
                /\ Shape(t.nodes, t.entries, t.root) = Shape(nodes, entries, root)
                /\ t.height = ibt_height
                /\ t.num_nodes - t.leaf_nodes = ibt_node_count
                /\ \A q \in Queries : SearchKey(t.nodes, t.entries, t.root, q) = SearchKey(nodes, entries, root, q)

\* three distinct keys were inserted, the last of them into a leaf that was
\* split, so that in another order it is the leaf of another key that splits
C21_Witness ==
    /\ trie = "live"
    /\ op = "ibt_insert"
    /\ ncalls = 3
    /\ Cardinality(StoredKeys) = 3
    /\ \E x \in Leaves(nodes, root, 0) : x.depth > 1 /\ entries[nodes[x.node].entry].key = arg

(* ------------------------------- C22 ----------------------------------- *)

\* C22: in place_ip, after a successful ibt_create, ibt_destroy is called
\* exactly once before the process ends, and no trie operation is performed
\* after that call: ibt_destroy is never called twice, a process that has
\* ended with a trie created has called it, and the process ends with the
\* call, so that nothing follows it.
C22_DestroyedOnceWhenProcessEnds ==
    /\ ndestroy <= 1
    /\ (proc # "running" /\ trie # "null") => ndestroy = 1
    /\ ndestroy = 1 => (proc # "running" /\ trie = "freed")

\* the same for the processes that end by exit or by return from main
PlaceIpExitDestroysOnce ==
    /\ ndestroy <= 1
    /\ (proc = "exited" /\ trie # "null") => ndestroy = 1
    /\ ndestroy = 1 => (proc = "exited" /\ trie = "freed")

====
